---- MODULE Spec2Model ----
(***************************************************************************)
(* Model of the status-line engine: the sound and wireless sampling loops  *)
(* (src/src/sound.rs, src/src/wireless.rs), the multi-producer channel     *)
(* they send on, and the aggregator that keeps one fragment per module key *)
(* and re-renders the whole line for every message it receives.            *)
(*                                                                         *)
(* Strings are sequences of characters (one-character TLA+ strings, or a   *)
(* named token for a character whose UTF-8 encoding takes two bytes).      *)
(* Option<T> is a sequence of length 0 (None) or 1 (Some).                 *)
(***************************************************************************)
EXTENDS Integers, Sequences, FiniteSets, TLC

VARIABLES config, pc, lock, cycles, chan, agg, rs, line, emitted, sent,
          applied, data, queried, last,
          built, bar, updates, ran, printed, outcome

\* the configuration as built at start-up, and the single-threaded Bar of
\* src/src/lib.rs with the record of its last update
aux == <<built, bar, updates, ran, printed, outcome>>

vars == <<config, pc, lock, cycles, chan, agg, rs, line, emitted, sent,
          applied, data, queried, last, aux>>

(* ---------------------------- bounds ----------------------------------- *)

\* number of sampling cycles each module thread is followed for
MaxCycles == 2

(* ------------------------ Option and strings --------------------------- *)

None == <<>>

Some(x) == <<x>>

IsSome(o) == Len(o) = 1

Unwrap(o) == o[1]

\* the character that is encoded on two bytes in UTF-8 (e-acute)
EACUTE == "e'"

\* number of bytes of the UTF-8 encoding of a character
Utf8Len(c) == IF c = EACUTE THEN 2 ELSE 1

RECURSIVE ByteLen(_)
\* str::len: the length of a string in bytes
ByteLen(s) == IF s = <<>> THEN 0 ELSE Utf8Len(Head(s)) + ByteLen(Tail(s))

\* str::chars().count()
CharsCount(s) == Len(s)

\* str::is_char_boundary(n): n is the start of a character or the end
IsCharBoundary(s, n) ==
  \E i \in 0..Len(s) : ByteLen(SubSeq(s, 1, i)) = n

\* &s[..n]: the characters of the first n bytes (n a character boundary)
SliceTo(s, n) ==
  SubSeq(s, 1, CHOOSE i \in 0..Len(s) : ByteLen(SubSeq(s, 1, i)) = n)

DigitChars == <<"0", "1", "2", "3", "4", "5", "6", "7", "8", "9">>

RECURSIVE Digits(_)
\* Display of an unsigned integer: its decimal digits
Digits(n) ==
  IF n < 10 THEN <<DigitChars[n + 1]>>
  ELSE Digits(n \div 10) \o <<DigitChars[(n % 10) + 1]>>

RECURSIVE Spaces(_)
Spaces(n) == IF n <= 0 THEN <<>> ELSE <<" ">> \o Spaces(n - 1)

\* format!("{:3}", n): a number is right-aligned in a field of at least 3
Pad3(n) == Spaces(3 - Len(Digits(n))) \o Digits(n)

(* --------------------------- configuration ----------------------------- *)

\* sound.rs constants
SOUND_PLACEHOLDER == <<"-">>

SOUND_TICK_RATE == 50

MUTE_LABEL == <<".", "s", "o">>

LABEL == <<"s", "o", "u">>

FORMAT == <<"%", "l", ":", "%", "v">>

\* wireless.rs constants
WIRELESS_PLACEHOLDER == <<"-">>

WIRELESS_TICK_RATE == 500

DISPLAY == "Signal"

MAX_ESSID_LEN == 10

INTERFACE == <<"w", "l", "a", "n", "0">>

TEXT == <<"w", "l", "e">>

DISCONNECTED_TEXT == <<".", "w", "l">>

\* the [sound] sections of the configurations explored
SoundSections ==
  { [tick |-> Some(20), placeholder |-> Some(<<"?">>), label |-> Some(<<"v">>),
     mute_label |-> Some(<<"m">>), format |-> Some(<<"%", "v", "%", "l">>)],
    [tick |-> None, placeholder |-> None, label |-> Some(<<"v">>),
     mute_label |-> None, format |-> None] }

\* the [wireless] sections of the configurations explored
WirelessSections ==
  { [tick |-> None, display |-> Some("Essid"), max_essid_len |-> Some(3),
     interface |-> None, placeholder |-> Some(<<"~">>), text |-> None,
     disconnected_text |-> None],
    [tick |-> Some(90), display |-> Some("TextOnly"), max_essid_len |-> None,
     interface |-> Some(<<"e">>), placeholder |-> None, text |-> Some(<<"u">>),
     disconnected_text |-> Some(<<"d">>)] }

\* the key each module kind is registered under
SoundKey == "s"

WirelessKey == "w"

\* the main configurations explored: the registered modules in display order
\* and the optional module sections
Configs ==
  { [modules |-> <<WirelessKey, SoundKey>>, sound |-> None, wireless |-> None] }
  \cup { [modules |-> <<SoundKey, WirelessKey>>, sound |-> Some(s),
          wireless |-> Some(w)] :
           s \in {x \in SoundSections : IsSome(x.format)},
           w \in {x \in WirelessSections : x.display = Some("Essid")} }
  \cup { [modules |-> <<WirelessKey>>, sound |-> None, wireless |-> Some(w)] :
           w \in {x \in WirelessSections : x.display = Some("TextOnly")} }
  \cup { [modules |-> <<SoundKey>>, sound |-> Some(s), wireless |-> None] :
           s \in {x \in SoundSections : ~IsSome(x.format)} }

\* every [sound] section: each option unset or set
AllSoundSections ==
  [tick : {None, Some(20)}, placeholder : {None, Some(<<"?">>)},
   label : {None, Some(<<"v">>)}, mute_label : {None, Some(<<"m">>)},
   format : {None, Some(<<"%", "v", "%", "l">>)}]

\* every [wireless] section: each option unset or set
AllWirelessSections ==
  [tick : {None, Some(90)},
   display : {None, Some("Essid"), Some("TextOnly"), Some("Signal")},
   max_essid_len : {None, Some(3)}, interface : {None, Some(<<"e">>)},
   placeholder : {None, Some(<<"~">>)}, text : {None, Some(<<"u">>)},
   disconnected_text : {None, Some(<<"d">>)}]

\* every main configuration over these sections, a section missing or not
AllConfigs ==
  [modules : {<<WirelessKey, SoundKey>>},
   sound : {None} \cup {Some(x) : x \in AllSoundSections},
   wireless : {None} \cup {Some(x) : x \in AllWirelessSections}]

\* sound.rs InternalConfig::from
SoundInternalConfig(c) ==
  LET sec == c.sound
      set(f) == IsSome(sec) /\ IsSome(Unwrap(sec)[f])
      get(f) == Unwrap(Unwrap(sec)[f])
  IN [tick       |-> IF set("tick") THEN get("tick") ELSE SOUND_TICK_RATE,
      label      |-> IF set("label") THEN get("label") ELSE LABEL,
      mute_label |-> IF set("mute_label") THEN get("mute_label") ELSE MUTE_LABEL]

\* Sound::with_config that forgets the configured placeholder
SoundWithConfigDefaultPlaceholder(c) ==
  [placeholder |-> SOUND_PLACEHOLDER,
   format      |-> IF IsSome(c.sound) /\ IsSome(Unwrap(c.sound).format)
                   THEN Unwrap(Unwrap(c.sound).format) ELSE FORMAT]

\* Sound::with_config that forgets the configured format
SoundWithConfigDefaultFormat(c) ==
  [placeholder |-> IF IsSome(c.sound) /\ IsSome(Unwrap(c.sound).placeholder)
                   THEN Unwrap(Unwrap(c.sound).placeholder)
                   ELSE SOUND_PLACEHOLDER,
   format      |-> FORMAT]

\* Sound::with_config, read through placeholder() and format()
SoundWithConfig(c) ==
  LET sec == c.sound
      set(f) == IsSome(sec) /\ IsSome(Unwrap(sec)[f])
      get(f) == Unwrap(Unwrap(sec)[f])
  IN [placeholder |-> IF set("placeholder") THEN get("placeholder")
                      ELSE SOUND_PLACEHOLDER,
      format      |-> IF set("format") THEN get("format") ELSE FORMAT]

\* an InternalConfig::from whose text option also sets the disconnected text
WirelessInternalConfigTextTwice(c) ==
  LET sec == c.wireless
      set(f) == IsSome(sec) /\ IsSome(Unwrap(sec)[f])
      get(f) == Unwrap(Unwrap(sec)[f])
  IN [display |-> IF set("display") THEN get("display") ELSE DISPLAY,
      max_essid_len |-> IF set("max_essid_len") THEN get("max_essid_len")
                        ELSE MAX_ESSID_LEN,
      interface |-> IF set("interface") THEN get("interface") ELSE INTERFACE,
      tick |-> IF set("tick") THEN get("tick") ELSE WIRELESS_TICK_RATE,
      text |-> IF set("text") THEN get("text") ELSE TEXT,
      disconnected_text |-> IF set("text") THEN get("text")
                            ELSE DISCONNECTED_TEXT]

\* wireless.rs InternalConfig::from
WirelessInternalConfig(c) ==
  LET sec == c.wireless
      set(f) == IsSome(sec) /\ IsSome(Unwrap(sec)[f])
      get(f) == Unwrap(Unwrap(sec)[f])
  IN [display |-> IF set("display") THEN get("display") ELSE DISPLAY,
      max_essid_len |-> IF set("max_essid_len") THEN get("max_essid_len")
                        ELSE MAX_ESSID_LEN,
      interface |-> IF set("interface") THEN get("interface") ELSE INTERFACE,
      tick |-> IF set("tick") THEN get("tick") ELSE WIRELESS_TICK_RATE,
      text |-> IF set("text") THEN get("text") ELSE TEXT,
      disconnected_text |-> IF set("disconnected_text")
                            THEN get("disconnected_text")
                            ELSE DISCONNECTED_TEXT]

\* Wireless::with_config, read through placeholder(); the wireless module
\* has no format template, its message value is the whole fragment
WirelessWithConfig(c) ==
  LET sec == c.wireless
      set(f) == IsSome(sec) /\ IsSome(Unwrap(sec)[f])
      get(f) == Unwrap(Unwrap(sec)[f])
  IN [placeholder |-> IF set("placeholder") THEN get("placeholder")
                      ELSE WIRELESS_PLACEHOLDER,
      format      |-> <<"%", "v">>]

(* ------------------------------ modules -------------------------------- *)

\* ModuleMsg(key, value, label); seq numbers the messages of one module in
\* emission order (history only, the aggregator does not read it)
ModuleMsg(key, value, label, seq) ==
  [key |-> key, value |-> value, label |-> label, seq |-> seq]

\* a send that queues the message ahead of all others
SendFront(ch, m) == <<m>> \o ch

\* tx.send on the mpsc channel: the message is queued behind all others
Send(ch, m) == Append(ch, m)

\* Receiver alive: a send fails only once the receiving side is dropped
RxAlive == agg # "done"

\* results of Pulse::sink_data() explored: None, or Some((volume, mute))
SinkData == {None, Some(<<7, FALSE>>), Some(<<100, TRUE>>)}

\* a loop that returns when the query has nothing to report
AfterQueryNoneReturns(d) == IF IsSome(d) THEN "send" ELSE "err"

\* a guard that is kept across the sleep
ReleaseNever(l, k) == l

\* a wireless loop that queries under the shared lock
WirelessLocksAlways == TRUE

\* sound.rs run: where the loop goes after the query: into the body of the
\* if let on Some, past it on None
AfterQuery(d) == IF IsSome(d) THEN "send" ELSE "unlock"

\* sound.rs run: the MutexGuard is a temporary of the if let scrutinee; it is
\* dropped at the end of the if let statement, before thread::sleep
Release(l, k) == IF l = k THEN "free" ELSE l

\* wireless.rs run: the shared handle is received as _ and never locked
WirelessLocks == FALSE

\* a label that ignores the mute flag
SoundLabelIgnoresMute(ic, d) == ic.label

\* sound.rs run: the label chosen from the mute flag of this cycle's query
SoundLabel(ic, d) == IF d[2] THEN ic.mute_label ELSE ic.label

\* a sound message tagged with the key of the wireless module
SoundMsgOtherKey(key, ic, d, seq) ==
  ModuleMsg(WirelessKey, Some(Pad3(d[1]) \o <<"%">>), Some(SoundLabel(ic, d)),
            seq)

\* sound.rs run: the message built from the data of this cycle's query
SoundMsg(key, ic, d, seq) ==
  ModuleMsg(key, Some(Pad3(d[1]) \o <<"%">>), Some(SoundLabel(ic, d)), seq)

\* results of nl_data::wireless_data(): Disconnected, or Connected with an
\* optional signal strength and an optional ESSID
Essids ==
  { None,
    Some(<<"a", EACUTE, "b", "c">>),
    Some(<<"a", "b", EACUTE, "c">>),
    Some(<<"a", "b", "c", "d", "e", "f", "g", "h", "i", "j", "k">>),
    Some(<<"a", "b", "c", "d", "e", "f", "g", "h", "i", EACUTE, "j">>) }

Signals == {None, Some(55)}

WirelessStates ==
  { [connected |-> FALSE, signal |-> None, essid |-> None] }
  \cup { [connected |-> TRUE, signal |-> g, essid |-> e] :
           g \in Signals, e \in Essids }

\* wireless.rs run: the byte slice val[..max_essid_len] panics when the
\* index is not a character boundary
EssidPanics(ic, st) ==
  /\ st.connected
  /\ IsSome(st.essid)
  /\ CharsCount(Unwrap(st.essid)) > ic.max_essid_len
  /\ ~IsCharBoundary(Unwrap(st.essid), ic.max_essid_len)

\* wireless.rs run: text, essid and signal of one cycle
WirelessData(ic, st) ==
  [text   |-> IF st.connected THEN ic.text ELSE ic.disconnected_text,
   signal |-> IF st.connected THEN st.signal ELSE None,
   essid  |-> IF st.connected /\ IsSome(st.essid)
              THEN IF CharsCount(Unwrap(st.essid)) > ic.max_essid_len
                   THEN SliceTo(Unwrap(st.essid), ic.max_essid_len)
                   ELSE Unwrap(st.essid)
              ELSE <<>>]

\* wireless.rs run: the message of one cycle, by display mode; the module
\* sends a key and one string, carried here as the value, with no label
WirelessMsg(key, ic, st, seq) ==
  LET w == WirelessData(ic, st)
  IN CASE ic.display = "TextOnly" ->
            ModuleMsg(key, Some(w.text), None, seq)
       [] ic.display = "Essid" ->
            ModuleMsg(key, Some(w.essid \o w.text), None, seq)
       [] ic.display = "Signal" ->
            IF IsSome(w.signal)
            THEN ModuleMsg(key, Some(Pad3(Unwrap(w.signal)) \o <<"%">> \o w.text),
                           None, seq)
            ELSE ModuleMsg(key, Some(Spaces(4) \o w.text), None, seq)

(* ----------------------------- aggregator ------------------------------ *)

\* the keys of the registered modules
Keys == {config.modules[i] : i \in 1..Len(config.modules)}

\* the module unit registered under a key: its placeholder and format
ModuleUnit(c, k) ==
  IF k = SoundKey THEN SoundWithConfig(c) ELSE WirelessWithConfig(c)

RECURSIVE Substitute(_, _, _)
\* the format template with %v replaced by the value and %l by the label
Substitute(t, value, label) ==
  IF t = <<>> THEN <<>>
  ELSE IF Len(t) >= 2 /\ t[1] = "%" /\ t[2] = "v"
       THEN value \o Substitute(SubSeq(t, 3, Len(t)), value, label)
  ELSE IF Len(t) >= 2 /\ t[1] = "%" /\ t[2] = "l" /\ IsSome(label)
       THEN Unwrap(label) \o Substitute(SubSeq(t, 3, Len(t)), value, label)
  ELSE <<Head(t)>> \o Substitute(Tail(t), value, label)

\* the fragment a message yields: format(value, label), or the placeholder
\* when the value is absent
Fragment(c, m) ==
  IF IsSome(m.value)
  THEN Substitute(ModuleUnit(c, m.key).format, Unwrap(m.value), m.label)
  ELSE ModuleUnit(c, m.key).placeholder

\* the separator between two fragments of the line
SEP == <<" ">>

RECURSIVE RenderReversed(_, _)
\* a line built back to front
RenderReversed(state, order) ==
  IF order = <<>> THEN <<>>
  ELSE IF Len(order) = 1 THEN state[order[1]]
  ELSE RenderReversed(state, Tail(order)) \o SEP \o state[order[1]]

RECURSIVE Render(_, _)
\* the full line: the entries of the state in display order, separated
Render(state, order) ==
  IF order = <<>> THEN <<>>
  ELSE IF Len(order) = 1 THEN state[order[1]]
  ELSE state[order[1]] \o SEP \o Render(state, Tail(order))

\* RenderState with the entry of a key replaced
Update(state, k, frag) == (k :> frag) @@ state

(* ------------------------------- actions ------------------------------- *)

Terminated(k) == pc[k] \in {"err", "panic"}

\* Bar::new
BarNew == [prev_idle |-> 0, prev_total |-> 0]

\* the state at start-up under the configuration chosen
Startup ==
  /\ pc = [k \in Keys |-> "loop"]
  /\ lock = "free"
  /\ cycles = [k \in Keys |-> 0]
  /\ chan = <<>>
  /\ agg = "waiting"
  /\ rs = [k \in Keys |-> ModuleUnit(config, k).placeholder]
  /\ line = <<>>
  /\ emitted = 0
  /\ sent = [k \in Keys |-> 0]
  /\ applied = [k \in Keys |-> 0]
  /\ data = None
  /\ queried = 0
  /\ last = [k \in Keys |-> None]
  /\ built = None
  /\ bar = BarNew
  /\ updates = 0
  /\ ran = <<>>
  /\ printed = 0
  /\ outcome = "none"

Init ==
  /\ config \in Configs
  /\ Startup

\* sound: pulse.lock().unwrap() at the top of a cycle; lock() blocks while
\* the mutex is held and unwrap() panics when a holder panicked (poisoned)
SoundLock ==
  /\ SoundKey \in Keys
  /\ pc[SoundKey] = "loop"
  /\ cycles[SoundKey] < MaxCycles
  /\ lock \in {"free", "poisoned"}
  /\ IF lock = "poisoned"
     THEN /\ pc' = [pc EXCEPT ![SoundKey] = "panic"]
          /\ lock' = lock
     ELSE /\ pc' = [pc EXCEPT ![SoundKey] = "query"]
          /\ lock' = SoundKey
  /\ UNCHANGED <<config, cycles, chan, agg, rs, line, emitted, sent, applied,
                 data, queried, last>>
  /\ UNCHANGED aux

\* sound: sink_data() under the lock; None skips the body of the if let
SoundQuery ==
  /\ SoundKey \in Keys
  /\ pc[SoundKey] = "query"
  /\ \E d \in SinkData :
       /\ data' = d
       /\ queried' = IF IsSome(d) THEN queried + 1 ELSE queried
       /\ pc' = [pc EXCEPT ![SoundKey] = AfterQuery(d)]
  /\ UNCHANGED <<config, lock, cycles, chan, agg, rs, line, emitted, sent,
                 applied, last>>
  /\ UNCHANGED aux

\* sound: tx.send(..)? in the body of the if let, the guard still alive; an
\* error returns from run, which drops the guard
SoundSend ==
  /\ SoundKey \in Keys
  /\ pc[SoundKey] = "send"
  /\ IF RxAlive
     THEN LET m == SoundMsg(SoundKey, SoundInternalConfig(config),
                            Unwrap(data), sent[SoundKey] + 1)
          IN /\ chan' = Send(chan, m)
             /\ last' = [last EXCEPT ![SoundKey] = Some(m)]
             /\ sent' = [sent EXCEPT ![SoundKey] = @ + 1]
             /\ pc' = [pc EXCEPT ![SoundKey] = "unlock"]
             /\ lock' = lock
     ELSE /\ pc' = [pc EXCEPT ![SoundKey] = "err"]
          /\ lock' = Release(lock, SoundKey)
          /\ UNCHANGED <<chan, sent, last>>
  /\ UNCHANGED <<config, cycles, agg, rs, line, emitted, applied, data, queried>>
  /\ UNCHANGED aux

\* sound: the end of the if let statement drops the guard
SoundUnlock ==
  /\ SoundKey \in Keys
  /\ pc[SoundKey] = "unlock"
  /\ lock' = Release(lock, SoundKey)
  /\ pc' = [pc EXCEPT ![SoundKey] = "sleep"]
  /\ UNCHANGED <<config, cycles, chan, agg, rs, line, emitted, sent, applied,
                 data, queried, last>>
  /\ UNCHANGED aux

\* sound: thread::sleep(config.tick) returns
SoundSleep ==
  /\ SoundKey \in Keys
  /\ pc[SoundKey] = "sleep"
  /\ pc' = [pc EXCEPT ![SoundKey] = "loop"]
  /\ cycles' = [cycles EXCEPT ![SoundKey] = @ + 1]
  /\ UNCHANGED <<config, lock, chan, agg, rs, line, emitted, sent, applied,
                 data, queried, last>>
  /\ UNCHANGED aux

\* wireless: one cycle up to the sleep: sample, build the text, send; a
\* thread that panics while it holds the mutex leaves it poisoned
WirelessCycle ==
  /\ WirelessKey \in Keys
  /\ pc[WirelessKey] = "loop"
  /\ cycles[WirelessKey] < MaxCycles
  /\ WirelessLocks => lock = "free"
  /\ \E st \in WirelessStates :
       LET ic == WirelessInternalConfig(config)
           m == WirelessMsg(WirelessKey, ic, st, sent[WirelessKey] + 1)
       IN IF EssidPanics(ic, st)
          THEN /\ pc' = [pc EXCEPT ![WirelessKey] = "panic"]
               /\ lock' = IF WirelessLocks THEN "poisoned" ELSE lock
               /\ UNCHANGED <<chan, sent, last>>
          ELSE IF RxAlive
          THEN /\ chan' = Send(chan, m)
               /\ last' = [last EXCEPT ![WirelessKey] = Some(m)]
               /\ sent' = [sent EXCEPT ![WirelessKey] = @ + 1]
               /\ pc' = [pc EXCEPT ![WirelessKey] = "sleep"]
               /\ lock' = lock
          ELSE /\ pc' = [pc EXCEPT ![WirelessKey] = "err"]
               /\ lock' = lock
               /\ UNCHANGED <<chan, sent, last>>
  /\ UNCHANGED <<config, cycles, agg, rs, line, emitted, applied, data,
                 queried>>
  /\ UNCHANGED aux

\* wireless: thread::sleep(config.tick) returns
WirelessSleep ==
  /\ WirelessKey \in Keys
  /\ pc[WirelessKey] = "sleep"
  /\ pc' = [pc EXCEPT ![WirelessKey] = "loop"]
  /\ cycles' = [cycles EXCEPT ![WirelessKey] = @ + 1]
  /\ UNCHANGED <<config, lock, chan, agg, rs, line, emitted, sent, applied,
                 data, queried, last>>
  /\ UNCHANGED aux

\* aggregator: receive one message, update its entry, render, emit the line
AggHandle ==
  /\ agg = "waiting"
  /\ chan # <<>>
  /\ LET m == Head(chan)
     IN /\ rs' = Update(rs, m.key, Fragment(config, m))
        /\ applied' = (m.key :> m.seq) @@ applied
  /\ chan' = Tail(chan)
  /\ line' = Render(rs', config.modules)
  /\ emitted' = emitted + 1
  /\ UNCHANGED <<config, pc, lock, cycles, agg, sent, data, queried, last>>
  /\ UNCHANGED aux

\* an aggregator that leaves its loop as soon as the channel is empty
AggExitEarly ==
  /\ agg = "waiting"
  /\ chan = <<>>
  /\ agg' = "done"
  /\ UNCHANGED <<config, pc, lock, cycles, chan, rs, line, emitted, sent,
                 applied, data, queried, last>>
  /\ UNCHANGED aux

\* aggregator: the channel is closed (every sender dropped) and empty
AggExit ==
  /\ agg = "waiting"
  /\ chan = <<>>
  /\ \A k \in Keys : Terminated(k)
  /\ agg' = "done"
  /\ UNCHANGED <<config, pc, lock, cycles, chan, rs, line, emitted, sent,
                 applied, data, queried, last>>
  /\ UNCHANGED aux

Next ==
  \/ SoundLock
  \/ SoundQuery
  \/ SoundSend
  \/ SoundUnlock
  \/ SoundSleep
  \/ WirelessCycle
  \/ WirelessSleep
  \/ AggHandle
  \/ AggExit

Spec == Init /\ [][Next]_vars

(* --------------------- configuration, on its own ----------------------- *)

InitCfg ==
  /\ config \in AllConfigs
  /\ Startup

\* start-up builds each module from the main configuration: with_config for
\* the module unit, InternalConfig::from at the top of run
Configure ==
  /\ built = None
  /\ built' = Some([sound         |-> SoundInternalConfig(config),
                    sound_unit    |-> SoundWithConfig(config),
                    wireless      |-> WirelessInternalConfig(config),
                    wireless_unit |-> WirelessWithConfig(config)])
  /\ UNCHANGED <<config, pc, lock, cycles, chan, agg, rs, line, emitted, sent,
                 applied, data, queried, last, bar, updates, ran, printed,
                 outcome>>

NextCfg == Configure

SpecCfg == InitCfg /\ [][NextCfg]_vars

(* ------------------- the single-threaded Bar (lib.rs) ------------------ *)

\* number of calls of Bar::update followed
MaxUpdates == 3

\* i32 division, which truncates toward zero
TruncDiv(a, b) ==
  IF (a >= 0) = (b > 0) THEN a \div b
  ELSE -((-a) \div b)

RECURSIVE Sum(_)
\* times.iter().fold(0, |acc, i| acc + i)
Sum(t) == IF t = <<>> THEN 0 ELSE Head(t) + Sum(Tail(t))

\* the files battery() reads: None when read_and_parse / read_and_trim
\* fails, the parsed content otherwise
BatteryInputs ==
  [energy_full_design : {None, Some(0), Some(50)},
   energy_now : {None, Some(25), Some(-1)},
   status : {None, Some("Full")}]

\* Bar::battery: the results it can end with. A zero capacity divides by
\* zero; a negative energy, cast to u64, overflows 100u64 * energy (a panic
\* with overflow checks, else a wrapped value that u32::try_from rejects)
Battery(i) ==
  IF i.energy_full_design = None \/ i.energy_now = None \/ i.status = None
  THEN {"err"}
  ELSE IF Unwrap(i.energy_full_design) = 0 THEN {"panic"}
  ELSE IF Unwrap(i.energy_now) < 0 THEN {"panic", "err"}
  ELSE {"ok"}

\* the files brightness() reads
BrightnessInputs ==
  [actual_brightness : {None, Some(40)}, max_brightness : {None, Some(0), Some(80)}]

\* Bar::brightness: 100 * brightness / max_brightness
Brightness(i) ==
  IF i.actual_brightness = None \/ i.max_brightness = None THEN "err"
  ELSE IF Unwrap(i.max_brightness) = 0 THEN "panic"
  ELSE "ok"

\* the first line of /proc/stat after its label: None when the file cannot
\* be opened or read, else its whitespace-separated fields, each the i32 it
\* parses to or None; the values stay far from the i32 range
ProcStats ==
  { None,
    Some(<<>>),
    Some(<<Some(1), Some(2), Some(3), Some(4)>>),
    Some(<<Some(10), None, Some(5), Some(80), Some(5)>>),
    Some(<<Some(10), Some(0), Some(5), Some(80), Some(5)>>),
    Some(<<Some(15), Some(0), Some(5), Some(75), Some(5)>>),
    Some(<<Some(20), Some(0), Some(10), Some(150), Some(20)>>),
    Some(<<Some(30), Some(5), Some(15), Some(200), Some(50), Some(0), Some(0)>>) }

\* the fields once every one of them parsed
Parsed(fields) == [j \in 1..Len(fields) |-> Unwrap(fields[j])]

\* a cpu() that stores the counters before it computes the usage
CpuStoresFirst(b, stat) ==
  IF stat = None THEN [result |-> "err", bar |-> b, usage |-> None]
  ELSE LET fields == Unwrap(stat)
           times == Parsed(fields)
       IN IF \E j \in 1..Len(fields) : fields[j] = None
          THEN [result |-> "panic", bar |-> b, usage |-> None]
          ELSE IF Len(times) < 5
          THEN [result |-> "panic", bar |-> b, usage |-> None]
          ELSE LET idle == times[4] + times[5]
                   total == Sum(times)
                   diff_idle == idle - b.prev_idle
                   diff_total == total - b.prev_total
                   nb == [prev_idle |-> idle, prev_total |-> total]
               IN IF diff_total = 0
                  THEN [result |-> "panic", bar |-> nb, usage |-> None]
                  ELSE [result |-> "ok", bar |-> nb,
                        usage |-> Some(TruncDiv(
                          TruncDiv(1000 * (diff_total - diff_idle), diff_total),
                          10))]

\* Bar::cpu: its result, the Bar it leaves and the usage it prints
Cpu(b, stat) ==
  IF stat = None THEN [result |-> "err", bar |-> b, usage |-> None]
  ELSE LET fields == Unwrap(stat)
           times == Parsed(fields)
       IN IF \E j \in 1..Len(fields) : fields[j] = None
          THEN [result |-> "panic", bar |-> b, usage |-> None]
          ELSE IF Len(times) < 5
          THEN [result |-> "panic", bar |-> b, usage |-> None]
          ELSE LET idle == times[4] + times[5]
                   total == Sum(times)
                   diff_idle == idle - b.prev_idle
                   diff_total == total - b.prev_total
               IN IF diff_total = 0
                  THEN [result |-> "panic", bar |-> b, usage |-> None]
                  ELSE [result |-> "ok",
                        bar |-> [prev_idle |-> idle, prev_total |-> total],
                        usage |-> Some(TruncDiv(
                          TruncDiv(1000 * (diff_total - diff_idle), diff_total),
                          10))]

\* the four files core_temperature() reads, in the order it reads them
CoreTempInputs ==
  { <<Some(40), Some(42), Some(44), Some(46)>>,
    <<None, Some(42), Some(44), Some(46)>>,
    <<Some(40), Some(42), None, Some(46)>> }

\* Bar::core_temperature
CoreTemperature(i) ==
  IF \E j \in 1..Len(i) : i[j] = None THEN "err" ELSE "ok"

\* one sampler of an update and how it ended
Ran(name, result) == [name |-> name, result |-> result]

\* Bar::update: date_time, then battery, brightness, cpu and
\* core_temperature, each followed by ?, then the status line. ran lists
\* the samplers called with their results, printed the lines written
BarUpdate ==
  /\ updates < MaxUpdates
  /\ outcome # "panic"
  /\ updates' = updates + 1
  /\ \E bi \in BatteryInputs, ri \in BrightnessInputs, stat \in ProcStats,
        ti \in CoreTempInputs :
       \E b1 \in Battery(bi) :
         LET b2 == Brightness(ri)
             c == Cpu(bar, stat)
             t == CoreTemperature(ti)
         IN IF b1 # "ok"
            THEN /\ ran' = <<Ran("battery", b1)>>
                 /\ outcome' = b1
                 /\ printed' = <<>>
                 /\ bar' = bar
            ELSE IF b2 # "ok"
            THEN /\ ran' = <<Ran("battery", b1), Ran("brightness", b2)>>
                 /\ outcome' = b2
                 /\ printed' = <<>>
                 /\ bar' = bar
            ELSE IF c.result # "ok"
            THEN /\ ran' = <<Ran("battery", b1), Ran("brightness", b2),
                             Ran("cpu", c.result)>>
                 /\ outcome' = c.result
                 /\ printed' = <<>>
                 /\ bar' = c.bar
            ELSE /\ ran' = <<Ran("battery", b1), Ran("brightness", b2),
                             Ran("cpu", c.result), Ran("core_temperature", t)>>
                 /\ outcome' = t
                 /\ printed' = <<<<"usage", Unwrap(c.usage)>>>>
                                 \o (IF t = "ok" THEN <<<<"status">>>> ELSE <<>>)
                 /\ bar' = c.bar
  /\ UNCHANGED <<config, pc, lock, cycles, chan, agg, rs, line, emitted, sent,
                 applied, data, queried, last, built>>

\* Bar::new: the counters start at zero; the threaded modules stay in their
\* initial state, which Bar never touches
InitBar ==
  /\ config \in Configs
  /\ Startup

NextBar == BarUpdate

SpecBar == InitBar /\ [][NextBar]_vars

(* ------------------------------ properties ----------------------------- *)

\* the modules in display order
Order == config.modules

RECURSIVE OffsetOf(_, _)
\* the number of characters of a line before the fragment at position i
OffsetOf(state, i) ==
  IF i = 1 THEN 0
  ELSE OffsetOf(state, i - 1) + Len(state[Order[i - 1]]) + Len(SEP)

\* the line l holds, at each position i, the entry of the i-th module
LineHolds(l, state) ==
  /\ \A i \in 1..Len(Order) :
       SubSeq(l, OffsetOf(state, i) + 1,
              OffsetOf(state, i) + Len(state[Order[i]])) = state[Order[i]]
  /\ Len(l) = OffsetOf(state, Len(Order)) + Len(state[Order[Len(Order)]])

\* the positions of the channel that hold a message tagged k
InFlight(k) == {i \in 1..Len(chan) : chan[i].key = k}

\* C1: every emitted line holds, at position i, the current RenderState
\* entry of the i-th registered module, whatever the interleaving and the
\* relative rates of the modules' messages.
C1_FragmentAtRegistrationPosition ==
  emitted > 0 => LineHolds(line, rs)

\* C1 witness: with two modules, the second has had two messages rendered
\* before the first had any.
C1_Witness ==
  /\ Len(Order) = 2
  /\ applied[Order[1]] = 0
  /\ applied[Order[2]] >= 2
  /\ rs[Order[1]] # rs[Order[2]]

SoundStep == SoundLock \/ SoundQuery \/ SoundSend \/ SoundUnlock \/ SoundSleep

\* one step of the wireless loop
WirelessStep == WirelessCycle \/ WirelessSleep

\* C3: the termination of one module's thread never stops the rest: every
\* other module still runs its cycle, the aggregator still receives and
\* renders, and no module halts because another one exited.
C3_FailureIsIsolated ==
  (\E k \in Keys : Terminated(k)) =>
    /\ SoundKey \in Keys =>
         /\ ~Terminated(SoundKey)
         /\ cycles[SoundKey] < MaxCycles => ENABLED SoundStep
    /\ \A k \in Keys : pc[k] # "err"
    /\ (WirelessKey \in Keys /\ ~Terminated(WirelessKey)
          /\ cycles[WirelessKey] < MaxCycles) => ENABLED WirelessStep
    /\ chan # <<>> => ENABLED AggHandle
    /\ agg = "done" => \A k \in Keys : Terminated(k)

\* C3 witness: the wireless thread has terminated and afterwards the sound
\* module has sent a message that the aggregator has rendered.
C3_Witness ==
  /\ Keys = {SoundKey, WirelessKey}
  /\ Terminated(WirelessKey)
  /\ sent[WirelessKey] = 0
  /\ applied[SoundKey] > 0
  /\ pc[SoundKey] = "sleep"

\* C4: a module in its tick sleep does not hold the lock of the shared
\* audio handle, whether its query returned a value or None.
C4_NoLockAcrossSleep ==
  \A k \in Keys : pc[k] = "sleep" => lock # k

\* C4 witness: the sound loop sleeps after a cycle that queried a value and
\* sent it, and the lock is free.
C4_Witness ==
  /\ SoundKey \in Keys
  /\ pc[SoundKey] = "sleep"
  /\ IsSome(data)
  /\ sent[SoundKey] > 0
  /\ lock = "free"

\* the sound fragment of a query result under the configured format
SoundFragmentOf(d) ==
  LET sec == config.sound
      opt(f, dflt) == IF IsSome(sec) /\ IsSome(Unwrap(sec)[f])
                      THEN Unwrap(Unwrap(sec)[f]) ELSE dflt
  IN Substitute(opt("format", FORMAT), Pad3(d[1]) \o <<"%">>,
                Some(IF d[2] THEN opt("mute_label", MUTE_LABEL)
                     ELSE opt("label", LABEL)))

SectionOf(k) == IF k = SoundKey THEN config.sound ELSE config.wireless

\* the placeholder the configuration gives key k: the configured one if set,
\* the module default "-" otherwise
ConfiguredPlaceholder(k) ==
  IF IsSome(SectionOf(k)) /\ IsSome(Unwrap(SectionOf(k)).placeholder)
  THEN Unwrap(Unwrap(SectionOf(k)).placeholder)
  ELSE <<"-">>

\* the format template the configuration gives key k
ConfiguredFormat(k) ==
  IF k = SoundKey
  THEN IF IsSome(config.sound) /\ IsSome(Unwrap(config.sound).format)
       THEN Unwrap(Unwrap(config.sound).format)
       ELSE <<"%", "l", ":", "%", "v">>
  ELSE <<"%", "v">>

\* the entry a message yields under the configuration
ExpectedFragment(m) ==
  IF IsSome(m.value)
  THEN Substitute(ConfiguredFormat(m.key), Unwrap(m.value), m.label)
  ELSE ConfiguredPlaceholder(m.key)

\* the RenderState the per-module message sequences determine once all
\* messages are consumed: for each key the fragment of the last message its
\* module sent, or its placeholder
FinalState ==
  [k \in Keys |-> IF IsSome(last[k]) THEN Fragment(config, Unwrap(last[k]))
                  ELSE ModuleUnit(config, k).placeholder]

\* C6: once all messages are consumed, RenderState and the rendered line
\* are determined by the per-module message sequences alone, whatever the
\* order in which messages of different modules arrived.
C6_FinalRenderIndependentOfArrivalOrder ==
  chan = <<>> =>
    /\ rs = FinalState
    /\ emitted > 0 => LineHolds(line, FinalState)

\* C6 witness: both modules have sent two messages, all are consumed, and
\* the two entries differ.
C6_Witness ==
  /\ Keys = {SoundKey, WirelessKey}
  /\ chan = <<>>
  /\ sent[SoundKey] = 2
  /\ sent[WirelessKey] = 2
  /\ emitted = 4
  /\ rs[SoundKey] # rs[WirelessKey]

\* C7: the messages of one module are consumed in the order it emitted
\* them: the message applied to a key is never an earlier one than the one
\* applied before, and once every message of a module is consumed its entry
\* is the fragment of the message it emitted last.
C7_PerModuleOrder ==
  /\ [][\A k \in Keys : applied'[k] >= applied[k]]_vars
  /\ [](\A k \in Keys :
          /\ applied[k] <= sent[k]
          /\ (applied[k] = sent[k] /\ sent[k] > 0) =>
               rs[k] = ExpectedFragment(Unwrap(last[k])))

\* C7 witness: a module has two messages of its own in the channel, the
\* second differing from the first.
C7_Witness ==
  \E k \in Keys :
    /\ Len(chan) >= 2
    /\ chan[1].key = k
    /\ chan[2].key = k
    /\ chan[1].value # chan[2].value
    /\ applied[k] = 0

\* C8: the entry and the rendered fragment of every registered module that
\* has had no message consumed is its configured placeholder exactly (the
\* module default "-" when none is configured).
C8_PlaceholderUntilFirstMessage ==
  \A i \in 1..Len(Order) :
    applied[Order[i]] = 0 =>
      /\ rs[Order[i]] = ConfiguredPlaceholder(Order[i])
      /\ emitted > 0 =>
           SubSeq(line, OffsetOf(rs, i) + 1,
                  OffsetOf(rs, i) + Len(ConfiguredPlaceholder(Order[i])))
             = ConfiguredPlaceholder(Order[i])

\* C8 witness: a line was emitted for a wireless message while the sound
\* module, configured with a placeholder of its own, had none consumed.
C8_Witness ==
  /\ Keys = {SoundKey, WirelessKey}
  /\ IsSome(config.sound)
  /\ IsSome(Unwrap(config.sound).placeholder)
  /\ applied[SoundKey] = 0
  /\ sent[SoundKey] > 0
  /\ applied[WirelessKey] > 0
  /\ emitted > 0

\* C9: RenderState has exactly one entry per registered module in every
\* reachable state: its keys are the registered keys.
C9_OneEntryPerModule ==
  /\ DOMAIN rs = Keys
  /\ Cardinality(DOMAIN rs) = Len(Order)

\* C9 witness: messages of both modules were consumed and one module has
\* terminated.
C9_Witness ==
  /\ Keys = {SoundKey, WirelessKey}
  /\ applied[SoundKey] > 0
  /\ applied[WirelessKey] > 0
  /\ Terminated(WirelessKey)

\* C10: handling one message changes only the entry of its key, to the
\* format template with value and label substituted (the placeholder when
\* the value is absent), and emits exactly one full line; nothing else
\* changes RenderState, the line or the number of lines emitted.
C10_HandleOneMessage ==
  [][(Len(chan') < Len(chan) \/ rs' # rs \/ line' # line
        \/ emitted' # emitted) =>
       /\ chan # <<>>
       /\ chan' = Tail(chan)
       /\ DOMAIN rs' = DOMAIN rs
       /\ rs'[Head(chan).key] = ExpectedFragment(Head(chan))
       /\ \A j \in DOMAIN rs \ {Head(chan).key} : rs'[j] = rs[j]
       /\ emitted' = emitted + 1
       /\ LineHolds(line', rs')]_vars

\* C10 witness: under a configured sound format, a sound message was
\* handled after a wireless one and both entries left their placeholders.
C10_Witness ==
  /\ Keys = {SoundKey, WirelessKey}
  /\ IsSome(config.sound)
  /\ applied[SoundKey] > 0
  /\ applied[WirelessKey] > 0
  /\ rs[SoundKey] # ConfiguredPlaceholder(SoundKey)
  /\ rs[WirelessKey] # ConfiguredPlaceholder(WirelessKey)
  /\ emitted >= 2

\* the number of messages all modules have sent
TotalSent ==
  (IF SoundKey \in Keys THEN sent[SoundKey] ELSE 0)
    + (IF WirelessKey \in Keys THEN sent[WirelessKey] ELSE 0)

\* C11: the aggregator leaves its waiting loop only when the channel is
\* closed: every module has exited and every queued message was rendered;
\* it never terminates while a module is still running, and once all
\* modules have exited it can always take its next step, rendering the
\* messages still in the channel one by one and then terminating.
C11_ExitOnlyOnChannelClosure ==
  /\ agg = "done" =>
       /\ \A k \in Keys : pc[k] \in {"err", "panic"}
       /\ chan = <<>>
       /\ emitted = TotalSent
  /\ ((\A k \in Keys : pc[k] \in {"err", "panic"}) /\ agg # "done") =>
       /\ emitted + Len(chan) = TotalSent
       /\ ~ENABLED (SoundStep \/ WirelessStep)
       /\ IF chan = <<>> THEN ENABLED AggExit ELSE ENABLED AggHandle

\* C11 witness: the only module has exited after a message of it was sent,
\* and the aggregator has terminated after rendering it.
C11_Witness ==
  /\ agg = "done"
  /\ \A k \in Keys : Terminated(k)
  /\ emitted > 0
  /\ emitted = TotalSent

\* C12: no module is ever blocked by another module or by the channel:
\* whatever the number of unconsumed messages and whatever the other
\* modules do, a running module can take its next step (its send included),
\* and the wireless loop never waits for the lock of the shared handle.
C12_NoModuleBlocksAnother ==
  /\ (SoundKey \in Keys /\ pc[SoundKey] \in {"query", "send", "unlock", "sleep"})
       => ENABLED SoundStep
  /\ (SoundKey \in Keys /\ pc[SoundKey] = "loop"
        /\ cycles[SoundKey] < MaxCycles) => ENABLED SoundLock
  /\ (WirelessKey \in Keys /\ pc[WirelessKey] = "sleep") => ENABLED WirelessSleep
  /\ (WirelessKey \in Keys /\ pc[WirelessKey] = "loop"
        /\ cycles[WirelessKey] < MaxCycles) => ENABLED WirelessCycle

\* C12 witness: the wireless loop is about to run a cycle while the sound
\* loop holds the lock and two messages wait in the channel.
C12_Witness ==
  /\ Keys = {SoundKey, WirelessKey}
  /\ lock = SoundKey
  /\ pc[SoundKey] = "send"
  /\ pc[WirelessKey] = "loop"
  /\ cycles[WirelessKey] < MaxCycles
  /\ Len(chan) >= 2

\* C13: every message in the channel carries a key of the registry, and
\* the last message each module sent carries the key the module was
\* started with.
C13_OnlyRegisteredKeys ==
  /\ \A i \in 1..Len(chan) : chan[i].key \in Keys
  /\ \A k \in Keys : IsSome(last[k]) => Unwrap(last[k]).key = k

\* C13 witness: messages of both modules are in the channel.
C13_Witness ==
  /\ Keys = {SoundKey, WirelessKey}
  /\ InFlight(SoundKey) # {}
  /\ InFlight(WirelessKey) # {}
  /\ Len(chan) >= 3

\* option f of a section: its value when the section is present and the
\* option set, the default otherwise
OptionOr(sec, f, dflt) ==
  IF IsSome(sec) /\ IsSome(Unwrap(sec)[f]) THEN Unwrap(Unwrap(sec)[f])
  ELSE dflt

\* C14: every option left unset takes its per-module default and every
\* option that is set overrides that option only; a missing section yields
\* all defaults.
C14_UnsetOptionsTakeDefaults ==
  IsSome(built) =>
    LET b == Unwrap(built)
        s == config.sound
        w == config.wireless
    IN /\ b.sound = [tick       |-> OptionOr(s, "tick", 50),
                     label      |-> OptionOr(s, "label", <<"s", "o", "u">>),
                     mute_label |-> OptionOr(s, "mute_label", <<".", "s", "o">>)]
       /\ b.sound_unit.placeholder = OptionOr(s, "placeholder", <<"-">>)
       /\ b.sound_unit.format
            = OptionOr(s, "format", <<"%", "l", ":", "%", "v">>)
       /\ b.wireless
            = [display |-> OptionOr(w, "display", "Signal"),
               max_essid_len |-> OptionOr(w, "max_essid_len", 10),
               interface |-> OptionOr(w, "interface", <<"w", "l", "a", "n", "0">>),
               tick |-> OptionOr(w, "tick", 500),
               text |-> OptionOr(w, "text", <<"w", "l", "e">>),
               disconnected_text
                 |-> OptionOr(w, "disconnected_text", <<".", "w", "l">>)]
       /\ b.wireless_unit.placeholder = OptionOr(w, "placeholder", <<"-">>)

\* C14 witness: built from a configuration without a sound section and with
\* a wireless section that sets the text and nothing else.
C14_Witness ==
  /\ IsSome(built)
  /\ config.sound = None
  /\ IsSome(config.wireless)
  /\ Unwrap(config.wireless).text = Some(<<"u">>)
  /\ \A f \in DOMAIN Unwrap(config.wireless) \ {"text"} :
       Unwrap(config.wireless)[f] = None
  /\ Unwrap(built).wireless.text = <<"u">>
  /\ Unwrap(built).wireless.disconnected_text = <<".", "w", "l">>

\* C15: the sound and wireless loops end only when a send on the channel
\* fails: while the aggregator is alive neither loop has terminated, and the
\* aggregator, which ends only on channel closure, never terminates.
C15_LoopsEndOnlyOnSendFailure ==
  /\ \A k \in Keys : pc[k] \in {"err", "panic"} => agg = "done"
  /\ agg # "done"

\* the last n characters of the string a message carries
TextPart(m, n) ==
  SubSeq(Unwrap(m.value), Len(Unwrap(m.value)) - n + 1, Len(Unwrap(m.value)))

\* the text a wireless cycle shows in link state st: the configured text
\* when connected, the disconnected text otherwise
TextFor(st) ==
  IF st.connected THEN OptionOr(config.wireless, "text", <<"w", "l", "e">>)
  ELSE OptionOr(config.wireless, "disconnected_text", <<".", "w", "l">>)

\* C16: the wireless module sends exactly one message in every sampling
\* cycle it starts, in every display mode and every link state, and the
\* text part of the message is the configured text exactly when the link
\* is connected and the disconnected text otherwise.
C16_OneMessagePerWirelessCycle ==
  WirelessKey \in Keys =>
    /\ sent[WirelessKey]
         = cycles[WirelessKey]
             + (IF pc[WirelessKey] \in {"sleep", "err", "panic"} THEN 1 ELSE 0)
    /\ \A st \in WirelessStates :
         ~EssidPanics(WirelessInternalConfig(config), st) =>
           LET m == WirelessMsg(WirelessKey, WirelessInternalConfig(config), st, 1)
           IN /\ IsSome(m.value)
              /\ TextPart(m, Len(TextFor(st))) = TextFor(st)

\* C17: every message the sound module sends has a value and a label, and
\* the label is the mute label exactly when the mute flag of the same
\* cycle's query is true, the normal label otherwise.
C17_SoundLabelFollowsMuteFlag ==
  SoundKey \in Keys =>
    /\ \A i \in 1..Len(chan) :
         chan[i].key = SoundKey =>
           /\ IsSome(chan[i].value)
           /\ IsSome(chan[i].label)
    /\ (pc[SoundKey] \in {"unlock", "sleep"} /\ IsSome(data)) =>
         /\ IsSome(last[SoundKey])
         /\ Unwrap(last[SoundKey]).seq = sent[SoundKey]
         /\ Unwrap(last[SoundKey]).value
              = Some(Pad3(Unwrap(data)[1]) \o <<"%">>)
         /\ Unwrap(last[SoundKey]).label
              = Some(IF Unwrap(data)[2]
                     THEN OptionOr(config.sound, "mute_label", <<".", "s", "o">>)
                     ELSE OptionOr(config.sound, "label", <<"s", "o", "u">>))

\* C17 witness: two sound messages of consecutive cycles are in the channel,
\* the first sent unmuted, the second muted, each with its own label.
C17_Witness ==
  /\ SoundKey \in Keys
  /\ pc[SoundKey] = "sleep"
  /\ Len(chan) >= 2
  /\ chan[Len(chan) - 1].key = SoundKey
  /\ chan[Len(chan)].key = SoundKey
  /\ chan[Len(chan) - 1].label
       = Some(OptionOr(config.sound, "label", <<"s", "o", "u">>))
  /\ chan[Len(chan)].label
       = Some(OptionOr(config.sound, "mute_label", <<".", "s", "o">>))
  /\ IsSome(data)
  /\ Unwrap(data)[2]

\* the samplers of Bar::update in the order it calls them
SamplerOrder == <<"battery", "brightness", "cpu", "core_temperature">>

\* C18: Bar::update samples battery, brightness, cpu and core temperature
\* in that order and stops at the first sampler that fails; the status line
\* is printed if and only if all four succeeded; prev_idle and prev_total
\* change only in an update whose cpu() returned successfully.
C18_UpdateStopsAtFirstError ==
  /\ [](updates > 0 =>
          /\ Len(ran) \in 1..4
          /\ \A i \in 1..Len(ran) : ran[i].name = SamplerOrder[i]
          /\ \A i \in 1..(Len(ran) - 1) : ran[i].result = "ok"
          /\ Len(ran) < 4 => ran[Len(ran)].result # "ok"
          /\ outcome = ran[Len(ran)].result
          /\ (\E i \in 1..Len(printed) : printed[i] = <<"status">>)
               <=> (Len(ran) = 4 /\ \A i \in 1..4 : ran[i].result = "ok"))
  /\ [][bar' # bar =>
          /\ Len(ran') >= 3
          /\ ran'[3] = [name |-> "cpu", result |-> "ok"]]_vars

\* C18 witness: after an update that succeeded, an update failed in
\* core_temperature: cpu ran and moved the counters, no status line.
C18_Witness ==
  /\ updates = 2
  /\ Len(ran) = 4
  /\ ran[4].result = "err"
  /\ outcome = "err"
  /\ bar = [prev_idle |-> 170, prev_total |-> 200]
  /\ printed = <<<<"usage", 15>>>>

====
